---- MODULE Spec2Model ----
(***************************************************************************)
(* A model of the KMS wire layer: Request::read and build_response         *)
(* (src/rpc.rs), the conversions into KmsError (src/error.rs) and the      *)
(* account Id hex codec (tendermint-rs/src/account.rs).                    *)
(*                                                                         *)
(* Three specifications share the module: Spec (one connection: the peer   *)
(* writes bytes, the KMS calls Request::read and builds responses),        *)
(* ErrSpec (failures of the external domains converted into KmsError) and  *)
(* IdSpec (account ids parsed from and formatted to hex).                  *)
(***************************************************************************)
EXTENDS Integers, Sequences, FiniteSets, TLC

VARIABLES stream, sent, calls, responses, errors, acct

vars == <<stream, sent, calls, responses, errors, acct>>

(***************************************************************************)
(* Program constants and model bounds.                                     *)
(***************************************************************************)
MAX_MSG_LEN == 1024

LENGTH == 20

MaxWrites == 2

MaxCalls == 2

MaxErrors == 2

Min(a, b) == IF a < b THEN a ELSE b

(***************************************************************************)
(* rpc.rs: the registered type prefixes.                                   *)
(***************************************************************************)
\* Sha256 of the amino names of the four request types (the names are the
\* constants VOTE_AMINO_NAME .. PING_AMINO_NAME of tendermint::amino_types).
Sha256(name) ==
  CASE name = "tendermint/remotesigner/SignVoteRequest" ->
         <<183, 249, 142, 243, 244, 18, 4, 82, 138, 68, 115, 152, 42, 113, 100, 163,
           125, 154, 42, 67, 138, 16, 68, 234, 127, 30, 178, 60, 108, 46, 121, 200>>
    [] name = "tendermint/remotesigner/SignProposalRequest" ->
         <<123, 121, 181, 189, 228, 152, 226, 226, 148, 36, 32, 95, 132, 212, 208, 34,
           1, 116, 154, 119, 201, 22, 21, 221, 73, 219, 226, 67, 214, 24, 176, 29>>
    [] name = "tendermint/remotesigner/PubKeyRequest" ->
         <<43, 188, 158, 203, 148, 214, 32, 225, 165, 133, 197, 222, 116, 8, 118, 128,
           143, 237, 50, 10, 74, 177, 247, 33, 222, 104, 206, 114, 147, 234, 225, 133>>
    [] name = "tendermint/remotesigner/PingRequest" ->
         <<197, 202, 198, 27, 173, 182, 13, 241, 46, 22, 132, 254, 169, 168, 3, 124,
           251, 81, 147, 178, 40, 245, 46, 227, 159, 183, 216, 151, 214, 234, 247, 239>>

NonZero(x) == x # 0

\* filter(!= 0) . skip(3) . filter(!= 0) . take(4)
compute_prefix(name) ==
  LET output   == Sha256(name)
      filtered == SelectSeq(output, NonZero)
      skipped  == SubSeq(filtered, 4, Len(filtered))
      again    == SelectSeq(skipped, NonZero)
  IN  SubSeq(again, 1, Min(4, Len(again)))

VOTE_PREFIX == compute_prefix("tendermint/remotesigner/SignVoteRequest")

PROPOSAL_PREFIX == compute_prefix("tendermint/remotesigner/SignProposalRequest")

PUBKEY_PREFIX == compute_prefix("tendermint/remotesigner/PubKeyRequest")

PING_PREFIX == compute_prefix("tendermint/remotesigner/PingRequest")

(***************************************************************************)
(* prost::encoding: varints.  A u64 at or above 2^28 is represented by     *)
(* U64Big: the code only compares such a value with MAX_MSG_LEN.           *)
(***************************************************************************)
U64Big == 128 * 128 * 128 * 128

\* Index of the byte that ends the varint starting s (0: none within 10 bytes).
VarintEnd(s) ==
  LET ends == {i \in 1..Min(10, Len(s)) : s[i] < 128}
  IN  IF ends = {} THEN 0 ELSE CHOOSE i \in ends : \A j \in ends : i <= j

RECURSIVE VarintLow(_, _, _)
VarintLow(s, i, e) ==
  IF i > e THEN 0 ELSE (s[i] % 128) + 128 * VarintLow(s, i + 1, e)

\* decode_varint: [ok, value, adv]; the 10th byte keeps only bit 63 (u64 shift).
decode_varint(s) ==
  LET e == VarintEnd(s) IN
  IF e = 0 THEN [ok |-> FALSE, value |-> 0, adv |-> 0]
  ELSE LET low  == VarintLow(s, 1, Min(e, 4))
           high == \/ \E i \in 5..Min(e, 9) : s[i] % 128 # 0
                   \/ e = 10 /\ s[10] % 2 = 1
       IN  [ok |-> TRUE, value |-> IF high THEN U64Big ELSE low, adv |-> e]

encoded_len_varint(v) ==
  IF v < 128 THEN 1
  ELSE IF v < 128 * 128 THEN 2
  ELSE IF v < 128 * 128 * 128 THEN 3
  ELSE IF v < U64Big THEN 4
  ELSE 5

(***************************************************************************)
(* prost Message::decode of the amino-registered request types, as the     *)
(* library does it: the length delimiter, the 4 prefix bytes of the type,  *)
(* then protobuf fields (key varint, then a value by wire type).           *)
(***************************************************************************)
Rest(s, pos) == SubSeq(s, pos + 1, Len(s))

RECURSIVE merge(_, _)
merge(s, pos) ==
  IF pos >= Len(s) THEN pos = Len(s)
  ELSE LET k == decode_varint(Rest(s, pos)) IN
       IF ~k.ok \/ k.value >= U64Big THEN FALSE
       ELSE LET tag       == k.value \div 8
                wire_type == k.value % 8
                p         == pos + k.adv
                v         == decode_varint(Rest(s, p))
            IN  IF tag = 0 THEN FALSE
                ELSE CASE wire_type = 0 -> v.ok /\ merge(s, p + v.adv)
                       [] wire_type = 1 -> p + 8 <= Len(s) /\ merge(s, p + 8)
                       [] wire_type = 2 -> /\ v.ok
                                           /\ v.value <= Len(s) - (p + v.adv)
                                           /\ merge(s, p + v.adv + v.value)
                       [] wire_type = 5 -> p + 4 <= Len(s) /\ merge(s, p + 4)
                       [] OTHER -> FALSE

\* [ok, payload]: payload is the message body after the type prefix.
decode(rem, prefix) ==
  LET l == decode_varint(rem) IN
  IF /\ l.ok
     /\ l.value >= 4
     /\ l.value <= Len(rem) - l.adv
     /\ SubSeq(rem, l.adv + 1, l.adv + 4) = prefix
     /\ merge(SubSeq(rem, l.adv + 5, l.adv + l.value), 0)
  THEN [ok |-> TRUE, payload |-> SubSeq(rem, l.adv + 5, l.adv + l.value)]
  ELSE [ok |-> FALSE, payload |-> <<>>]

(***************************************************************************)
(* rpc.rs: Request::read.  data is what the one r.read() call put at the   *)
(* start of buf = vec![0; MAX_MSG_LEN]; the rest of buf stays zero.        *)
(***************************************************************************)
At(data, i) == IF i <= Len(data) THEN data[i] ELSE 0

\* buf[from .. from + n], 0-based from
Window(data, from, n) == [i \in 1..n |-> At(data, from + i)]

NoLen == 0 - 1

Outcome(kind, what, payload) == [kind |-> kind, what |-> what, payload |-> payload]

Call(data, out, v, amino_pre, total_len, sliced) ==
  [bytes_read |-> Len(data), data |-> data, out |-> out,
   varint_ok |-> v.ok, len |-> IF v.ok THEN v.value ELSE NoLen, adv |-> v.adv,
   amino_pre |-> amino_pre, total_len |-> total_len, sliced |-> sliced]

NoVarint == [ok |-> FALSE, value |-> 0, adv |-> 0]

Decoded(variant, rem, prefix) ==
  LET m == decode(rem, prefix) IN
  IF m.ok THEN Outcome("Ok", variant, m.payload)
  ELSE Outcome("Err", "decode error", <<>>)

\* Dispatch with a default type: an unrecognised prefix taken for a ping.
Dispatch_default_ping(amino_pre, rem) ==
  IF amino_pre = VOTE_PREFIX THEN Decoded("SignVote", rem, VOTE_PREFIX)
  ELSE IF amino_pre = PROPOSAL_PREFIX THEN Decoded("SignProposal", rem, PROPOSAL_PREFIX)
  ELSE IF amino_pre = PUBKEY_PREFIX THEN Decoded("ShowPublicKey", rem, PUBKEY_PREFIX)
  ELSE Decoded("ReplyPing", rem, amino_pre)

Dispatch(amino_pre, rem) ==
  IF amino_pre = VOTE_PREFIX THEN Decoded("SignVote", rem, VOTE_PREFIX)
  ELSE IF amino_pre = PROPOSAL_PREFIX THEN Decoded("SignProposal", rem, PROPOSAL_PREFIX)
  ELSE IF amino_pre = PUBKEY_PREFIX THEN Decoded("ShowPublicKey", rem, PUBKEY_PREFIX)
  ELSE IF amino_pre = PING_PREFIX THEN Decoded("ReplyPing", rem, PING_PREFIX)
  ELSE Outcome("Err", "Received unknown RPC message.", <<>>)

\* Request::read with the size check made on bytes_read instead of len.
Request_read_checks_bytes_read(data) ==
  LET bytes_read == Len(data) IN
  IF bytes_read < 4
  THEN Call(data, Outcome("Err", "Did not read enough bytes to continue.", <<>>),
            NoVarint, <<>>, NoLen, FALSE)
  ELSE
    LET v == decode_varint(Window(data, 0, 10)) IN
    IF ~v.ok
    THEN Call(data, Outcome("Panic", "unwrap on invalid varint", <<>>), v, <<>>, NoLen, FALSE)
    ELSE IF bytes_read > MAX_MSG_LEN
    THEN Call(data, Outcome("Err", "RPC message too large.", <<>>), v, <<>>, NoLen, FALSE)
    ELSE
      LET len       == v.value
          amino_pre == Window(data, v.adv, 4)
          total_len == encoded_len_varint(len) + len
      IN  IF v.adv + 4 > MAX_MSG_LEN
          THEN Call(data, Outcome("Err", "failed to fill whole buffer", <<>>),
                    v, <<>>, NoLen, FALSE)
          ELSE IF total_len > MAX_MSG_LEN
          THEN Call(data, Outcome("Panic", "slice index out of range", <<>>),
                    v, amino_pre, total_len, FALSE)
          ELSE Call(data, Dispatch(amino_pre, Window(data, 0, total_len)),
                    v, amino_pre, total_len, TRUE)

Request_read(data) ==
  LET bytes_read == Len(data) IN
  IF bytes_read < 4
  THEN Call(data, Outcome("Err", "Did not read enough bytes to continue.", <<>>),
            NoVarint, <<>>, NoLen, FALSE)
  ELSE
    LET v == decode_varint(Window(data, 0, 10)) IN
    IF ~v.ok
    THEN Call(data, Outcome("Panic", "unwrap on invalid varint", <<>>), v, <<>>, NoLen, FALSE)
    ELSE IF v.value > MAX_MSG_LEN
    THEN Call(data, Outcome("Err", "RPC message too large.", <<>>), v, <<>>, NoLen, FALSE)
    ELSE
      LET len       == v.value
          amino_pre == Window(data, v.adv, 4)
          total_len == encoded_len_varint(len) + len
      IN  IF v.adv + 4 > MAX_MSG_LEN
          THEN Call(data, Outcome("Err", "failed to fill whole buffer", <<>>),
                    v, <<>>, NoLen, FALSE)
          ELSE IF total_len > MAX_MSG_LEN
          THEN Call(data, Outcome("Panic", "slice index out of range", <<>>),
                    v, amino_pre, total_len, FALSE)
          ELSE Call(data, Dispatch(amino_pre, Window(data, 0, total_len)),
                    v, amino_pre, total_len, TRUE)

(***************************************************************************)
(* rpc.rs: build_response.  The two impls of TendermintRequest echo the    *)
(* request's payload and leave err empty.                                  *)
(***************************************************************************)
\* build_response of a vote answering with the proposal response.
build_response_vote_swapped(req) ==
  [variant |-> "SignedProposal", payload |-> req.payload, err |-> "None"]

build_response_vote(req) ==
  [variant |-> "SignedVote", payload |-> req.payload, err |-> "None"]

build_response_proposal(req) ==
  [variant |-> "SignedProposal", payload |-> req.payload, err |-> "None"]

\* The path of the two requests that are not signable (not in rpc.rs).
respond_nonsignable(req) ==
  IF req.what = "ShowPublicKey"
  THEN [variant |-> "PublicKey", payload |-> req.payload, err |-> "None"]
  ELSE [variant |-> "Ping", payload |-> req.payload, err |-> "None"]

Respond(req) ==
  CASE req.what = "SignVote"     -> build_response_vote(req)
    [] req.what = "SignProposal" -> build_response_proposal(req)
    [] OTHER                     -> respond_nonsignable(req)

(***************************************************************************)
(* One connection.  The peer writes byte chunks; each Request::read does   *)
(* one r.read() into the MAX_MSG_LEN buffer, which takes any number of the *)
(* bytes then available.                                                   *)
(***************************************************************************)
PingFrame == <<7>> \o PING_PREFIX \o <<10, 1, 97>>

VoteFrame == <<6>> \o VOTE_PREFIX \o <<8, 1>>

ProposalFrame == <<6>> \o PROPOSAL_PREFIX \o <<8, 2>>

PubKeyFrame == <<4>> \o PUBKEY_PREFIX

UnknownFrame == <<4, 222, 173, 190, 239>>

WellFormed == {PingFrame, VoteFrame, ProposalFrame, PubKeyFrame}

\* declared lengths 2000, 1023 and 1022 (the last with one bytes field of 1015)
Oversize == <<208, 15, 1, 2>>

Len1023 == <<255, 7, 1, 2>>

Len1022 == <<254, 7>> \o PING_PREFIX \o <<10, 247, 7>>

\* ten continuation bytes; length 0 followed by four bytes
BadVarint == <<255, 255, 255, 255, 255, 255, 255, 255, 255, 255>>

LenZero == <<0>> \o PING_PREFIX

Chunks ==
  WellFormed \cup {UnknownFrame, Oversize, Len1023, Len1022, BadVarint, LenZero}

Requests == SelectSeq(calls, LAMBDA c : c.out.kind = "Ok")

Panicked == \E i \in 1..Len(calls) : calls[i].out.kind = "Panic"

Init ==
  /\ stream = <<>>
  /\ sent = <<>>
  /\ calls = <<>>
  /\ responses = <<>>
  /\ errors = <<>>
  /\ acct = <<>>

Write ==
  /\ Len(sent) < MaxWrites
  /\ \E c \in Chunks :
       /\ stream' = stream \o c
       /\ sent' = Append(sent, c)
  /\ UNCHANGED <<calls, responses, errors, acct>>

\* r.read(&mut buf) returned Ok(n); the rest of Request::read follows.
Read ==
  /\ Len(calls) < MaxCalls
  /\ ~Panicked
  /\ Len(responses) = Len(Requests)
  /\ \E n \in (IF stream = <<>> THEN {0} ELSE 1..Min(MAX_MSG_LEN, Len(stream))) :
       /\ calls' = Append(calls, Request_read(SubSeq(stream, 1, n)))
       /\ stream' = SubSeq(stream, n + 1, Len(stream))
  /\ UNCHANGED <<sent, responses, errors, acct>>

\* r.read(&mut buf) returned Err: the ? returns it.
ReadFail ==
  /\ Len(calls) < MaxCalls
  /\ ~Panicked
  /\ Len(responses) = Len(Requests)
  /\ calls' = Append(calls, Call(<<>>, Outcome("Err", "transport error", <<>>),
                                 NoVarint, <<>>, NoLen, FALSE))
  /\ UNCHANGED <<stream, sent, responses, errors, acct>>

BuildResponse ==
  /\ Len(responses) < Len(Requests)
  /\ responses' = Append(responses, Respond(Requests[Len(responses) + 1].out))
  /\ UNCHANGED <<stream, sent, calls, errors, acct>>

Next == Write \/ Read \/ ReadFail \/ BuildResponse

Spec == Init /\ [][Next]_vars

(***************************************************************************)
(* error.rs: the conversions into KmsError.  A KmsError is its kind and    *)
(* the description it carries.                                             *)
(***************************************************************************)
KmsErrorKind ==
  {"AccessError", "ConfigError", "PanicError", "CryptoError", "HookError", "InvalidKey",
   "InvalidMessageError", "IoError", "ParseError", "ProtocolError", "SerializationError",
   "SigningError", "VerificationError", "DoubleSign", "ExceedMaxHeight"}

SignatoryErrorKind == {"Io", "KeyInvalid", "ParseError", "ProviderError", "SignatureInvalid"}

TendermintError ==
  {"Crypto", "InvalidKey", "Io", "Protocol", "Length", "Parse", "OutOfRange",
   "SignatureInvalid"}

\* what a panic payload downcasts to, with its text
PanicPayloads ==
  {[type |-> "String", text |-> "boom"], [type |-> "&str", text |-> "boom"],
   [type |-> "other", text |-> ""]}

KmsError(kind, description) == [kind |-> kind, description |-> description]

from_panic(msg) ==
  IF msg.type = "String" THEN KmsError("PanicError", msg.text)
  ELSE IF msg.type = "&str" THEN KmsError("PanicError", msg.text)
  ELSE KmsError("PanicError", "unknown cause")

from_abscissa_error(other) == KmsError(other, "")

from_io_error(other) == KmsError("IoError", other)

from_decode_error(other) == KmsError("ProtocolError", other)

from_encode_error(other) == KmsError("ProtocolError", other)

from_serde_json_error(other) == KmsError("SerializationError", other)

\* the signatory conversion with a provider failure taken for a crypto failure
from_signatory_error_provider(other) ==
  LET kind == CASE other = "Io"               -> "IoError"
                [] other = "KeyInvalid"       -> "InvalidKey"
                [] other = "ParseError"       -> "ParseError"
                [] other = "ProviderError"    -> "CryptoError"
                [] other = "SignatureInvalid" -> "VerificationError"
  IN  KmsError(kind, other)

from_signatory_error(other) ==
  LET kind == CASE other = "Io"               -> "IoError"
                [] other = "KeyInvalid"       -> "InvalidKey"
                [] other = "ParseError"       -> "ParseError"
                [] other = "ProviderError"    -> "SigningError"
                [] other = "SignatureInvalid" -> "VerificationError"
  IN  KmsError(kind, other)

from_tendermint_error(other) ==
  LET kind == CASE other = "Crypto"           -> "CryptoError"
                [] other = "InvalidKey"       -> "InvalidKey"
                [] other = "Io"               -> "IoError"
                [] other = "Protocol"         -> "ProtocolError"
                [] other \in {"Length", "Parse", "OutOfRange"} -> "ParseError"
                [] other = "SignatureInvalid" -> "VerificationError"
  IN  KmsError(kind, "")

\* the validation conversion reporting a double sign
from_validation_error_fatal(other) == KmsError("DoubleSign", other)

from_validation_error(other) == KmsError("InvalidMessageError", other)

from_state_error(other) == KmsError("DoubleSign", other)

Converted(domain, input, e) == [domain |-> domain, input |-> input, error |-> e]

ErrInit ==
  /\ errors = <<>>
  /\ stream = <<>>
  /\ sent = <<>>
  /\ calls = <<>>
  /\ responses = <<>>
  /\ acct = <<>>

Log(entry) ==
  /\ Len(errors) < MaxErrors
  /\ errors' = Append(errors, entry)
  /\ UNCHANGED <<stream, sent, calls, responses, acct>>

FromPanic == \E m \in PanicPayloads : Log(Converted("panic", m.type, from_panic(m)))

FromAbscissa == \E k \in KmsErrorKind : Log(Converted("kms", k, from_abscissa_error(k)))

FromIo == Log(Converted("io", "io::Error", from_io_error("io::Error")))

FromDecode == Log(Converted("decode", "DecodeError", from_decode_error("DecodeError")))

FromEncode == Log(Converted("encode", "EncodeError", from_encode_error("EncodeError")))

FromSerdeJson == Log(Converted("serde_json", "Error", from_serde_json_error("Error")))

FromSignatory ==
  \E k \in SignatoryErrorKind : Log(Converted("signatory", k, from_signatory_error(k)))

FromTendermint ==
  \E k \in TendermintError : Log(Converted("tendermint", k, from_tendermint_error(k)))

FromValidation ==
  Log(Converted("validation", "ValidationError", from_validation_error("ValidationError")))

FromState == Log(Converted("state", "StateError", from_state_error("StateError")))

ErrNext ==
  \/ FromPanic
  \/ FromAbscissa
  \/ FromIo
  \/ FromDecode
  \/ FromEncode
  \/ FromSerdeJson
  \/ FromSignatory
  \/ FromTendermint
  \/ FromValidation
  \/ FromState

ErrSpec == ErrInit /\ [][ErrNext]_vars

(***************************************************************************)
(* account.rs: Id, its Display and FromStr.  A string is a sequence of     *)
(* one-character strings.                                                  *)
(***************************************************************************)
UpperDigits ==
  <<"0", "1", "2", "3", "4", "5", "6", "7", "8", "9", "A", "B", "C", "D", "E", "F">>

LowerDigits ==
  <<"0", "1", "2", "3", "4", "5", "6", "7", "8", "9", "a", "b", "c", "d", "e", "f">>

\* value of a hex digit of the given alphabet, -1 when it is none
Nibble(c, digits) ==
  IF \E i \in 1..16 : digits[i] = c
  THEN (CHOOSE i \in 1..16 : digits[i] = c) - 1
  ELSE 0 - 1

hex_decode_with(s, digits) ==
  IF Len(s) % 2 # 0 \/ \E i \in 1..Len(s) : Nibble(s[i], digits) < 0
  THEN [ok |-> FALSE, bytes |-> <<>>]
  ELSE [ok |-> TRUE,
        bytes |-> [i \in 1..(Len(s) \div 2) |->
                     16 * Nibble(s[2 * i - 1], digits) + Nibble(s[2 * i], digits)]]

hex_decode_upper(s) == hex_decode_with(s, UpperDigits)

hex_decode(s) == hex_decode_with(s, LowerDigits)

\* Display: write!(f, "{:02X}", byte) for each byte
fmt(bytes) ==
  [i \in 1..(2 * Len(bytes)) |->
     IF i % 2 = 1 THEN UpperDigits[(bytes[(i + 1) \div 2] \div 16) + 1]
     ELSE UpperDigits[(bytes[i \div 2] % 16) + 1]]

from_str(s) ==
  LET upper == hex_decode_upper(s)
      bytes == IF upper.ok THEN upper ELSE hex_decode(s)
  IN  IF ~bytes.ok THEN [ok |-> FALSE, err |-> "Parse", id |-> <<>>]
      ELSE IF Len(bytes.bytes) # LENGTH THEN [ok |-> FALSE, err |-> "Parse", id |-> <<>>]
      ELSE [ok |-> TRUE, err |-> "", id |-> bytes.bytes]

Alphabet == {"0", "9", "a", "f", "A", "F", "g", "Z"}

SomeBytes == {0, 10, 171, 255}

\* two leading characters, then one character repeated up to length n
Pattern(a, b, fill, n) == [i \in 1..n |-> IF i = 1 THEN a ELSE IF i = 2 THEN b ELSE fill]

IdStrings ==
  {Pattern(a, b, fill, n) :
     a \in Alphabet, b \in Alphabet, fill \in Alphabet,
     n \in {0, 1, 2 * LENGTH - 2, 2 * LENGTH - 1, 2 * LENGTH, 2 * LENGTH + 1,
            2 * LENGTH + 2}}

IdBytes == {[i \in 1..LENGTH |-> IF i = 1 THEN h ELSE f] : h \in SomeBytes, f \in SomeBytes}

NoResult == [ok |-> FALSE, err |-> "none", id |-> <<>>]

IdInit ==
  /\ acct = [s |-> <<>>, res |-> NoResult, shown |-> <<>>, given |-> FALSE, parsed |-> FALSE,
             from |-> <<>>]
  /\ errors = <<>>
  /\ stream = <<>>
  /\ sent = <<>>
  /\ calls = <<>>
  /\ responses = <<>>

Others == <<stream, sent, calls, responses, errors>>

\* a string arrives to be parsed
IdInput ==
  /\ ~acct.given
  /\ \E s \in IdStrings : acct' = [acct EXCEPT !.s = s, !.given = TRUE]
  /\ UNCHANGED Others

\* Id::new(bytes)
IdNew ==
  /\ ~acct.given
  /\ \E b \in IdBytes :
       acct' = [acct EXCEPT !.res = [ok |-> TRUE, err |-> "", id |-> b], !.given = TRUE]
  /\ UNCHANGED Others

\* s.parse::<Id>()
IdFromStr ==
  /\ acct.given
  /\ acct.res = NoResult
  /\ acct' = [acct EXCEPT !.res = from_str(acct.s), !.parsed = TRUE]
  /\ UNCHANGED Others

\* id.to_string()
IdDisplay ==
  /\ acct.res.ok
  /\ acct.shown = <<>>
  /\ acct' = [acct EXCEPT !.shown = fmt(acct.res.id)]
  /\ UNCHANGED Others

\* the string shown is parsed again
IdReparse ==
  /\ acct.shown # <<>>
  /\ acct.from = <<>>
  /\ acct' = [acct EXCEPT !.s = acct.shown, !.from = acct.res.id,
                          !.res = from_str(acct.shown), !.parsed = TRUE]
  /\ UNCHANGED Others

IdNext == IdInput \/ IdNew \/ IdFromStr \/ IdDisplay \/ IdReparse

IdSpec == IdInit /\ [][IdNext]_vars

(***************************************************************************)
(* Properties of Request::read and build_response (under Spec).            *)
(***************************************************************************)
CallSet == {calls[i] : i \in 1..Len(calls)}

KnownPrefixes == {VOTE_PREFIX, PROPOSAL_PREFIX, PUBKEY_PREFIX, PING_PREFIX}

PrefixOf(variant) ==
  CASE variant = "SignVote"      -> VOTE_PREFIX
    [] variant = "SignProposal"  -> PROPOSAL_PREFIX
    [] variant = "ShowPublicKey" -> PUBKEY_PREFIX
    [] variant = "ReplyPing"     -> PING_PREFIX

\* C1: Request::read never panics: every call ends by returning a Request or
\* an error value, whatever bytes the one read delivered.
C1_NeverPanics == \A c \in CallSet : c.out.kind \in {"Ok", "Err"}

\* C2: a read that returns fewer bytes than the frame length
\* encoded_length(len) + len fails with an error; no Request is decoded from a
\* frame received only in part.  (Frames that fit the buffer.)
C2_ShortReadFails ==
  \A c \in CallSet :
    (c.total_len # NoLen /\ c.total_len <= MAX_MSG_LEN /\ c.bytes_read < c.total_len)
      => c.out.kind = "Err"

\* C3: whenever the decoded varint length exceeds MAX_MSG_LEN the call returns
\* the size error, returns no Request, and the frame slice is never built.
C3_OversizeRejected ==
  \A c \in CallSet :
    (c.varint_ok /\ c.len > MAX_MSG_LEN)
      => /\ c.out = Outcome("Err", "RPC message too large.", <<>>)
         /\ ~c.sliced
         /\ c.total_len = NoLen

C3_Witness ==
  \E c \in CallSet : c.varint_ok /\ c.len > MAX_MSG_LEN /\ c.bytes_read >= 4

\* C4: a call consumes no bytes of the stream beyond the frame it handles (for
\* a rejected oversize frame none beyond the length field), so well-formed
\* frames written back-to-back are returned one per call, in arrival order,
\* none skipped or dropped.
C4_NoBytesBeyondFrame ==
  (\A i \in 1..Len(sent) : sent[i] \in WellFormed \cup {Oversize}) =>
    /\ \A c \in CallSet :
         c.varint_ok =>
           IF c.len > MAX_MSG_LEN THEN c.bytes_read <= c.adv
           ELSE c.bytes_read <= encoded_len_varint(c.len) + c.len
    /\ ( /\ \A i \in 1..Len(sent) : sent[i] \in WellFormed
         /\ stream = <<>>
         /\ \A c \in CallSet : c.total_len # NoLen /\ c.bytes_read >= c.total_len )
       => /\ Len(Requests) = Len(sent)
          /\ \A i \in 1..Len(sent) : Requests[i].out = Request_read(sent[i]).out

\* C5: a frame whose 4-byte type prefix is none of the four known prefixes is
\* rejected with the unknown-message error, and a Request variant is returned
\* only for a frame that carries that variant's prefix.
C5_UnknownRejected ==
  \A c \in CallSet :
    /\ (c.sliced /\ c.amino_pre \notin KnownPrefixes)
         => c.out = Outcome("Err", "Received unknown RPC message.", <<>>)
    /\ c.out.kind = "Ok" => (c.sliced /\ c.amino_pre = PrefixOf(c.out.what))

C5_Witness ==
  /\ \E c \in CallSet : c.sliced /\ c.amino_pre \notin KnownPrefixes
  /\ \E c \in CallSet : c.out.kind = "Ok" /\ c.out.what = "SignVote"

\* C6: the outcome of a call depends only on the first
\* encoded_length(len) + len bytes of the buffer: changing the bytes after
\* them changes nothing; and a frame with len < 4 matches no known prefix.
C6_TrailingIgnored ==
  \A c \in CallSet :
    (c.varint_ok /\ c.len <= MAX_MSG_LEN) =>
      /\ \A g \in {0, 238} :
           LET frame_len == encoded_len_varint(c.len) + c.len
               other == [i \in 1..Len(c.data) |-> IF i <= frame_len THEN c.data[i] ELSE g]
           IN  Request_read(other).out = c.out
      /\ c.len < 4 => c.amino_pre \notin KnownPrefixes

ResponseOf(variant) ==
  CASE variant = "SignVote"      -> "SignedVote"
    [] variant = "SignProposal"  -> "SignedProposal"
    [] variant = "ShowPublicKey" -> "PublicKey"
    [] variant = "ReplyPing"     -> "Ping"

ErrorSet == {errors[i] : i \in 1..Len(errors)}

\* the table of the error taxonomy: source domain and failure -> kind
TableKind(domain, input) ==
  CASE domain = "io"         -> "IoError"
    [] domain = "decode"     -> "ProtocolError"
    [] domain = "encode"     -> "ProtocolError"
    [] domain = "serde_json" -> "SerializationError"
    [] domain = "signatory" /\ input = "Io"               -> "IoError"
    [] domain = "signatory" /\ input = "KeyInvalid"       -> "InvalidKey"
    [] domain = "signatory" /\ input = "ParseError"       -> "ParseError"
    [] domain = "signatory" /\ input = "ProviderError"    -> "SigningError"
    [] domain = "signatory" /\ input = "SignatureInvalid" -> "VerificationError"
    [] domain = "validation" -> "InvalidMessageError"
    [] domain = "tendermint" /\ input = "Crypto"           -> "CryptoError"
    [] domain = "tendermint" /\ input = "InvalidKey"       -> "InvalidKey"
    [] domain = "tendermint" /\ input = "Io"               -> "IoError"
    [] domain = "tendermint" /\ input = "Protocol"         -> "ProtocolError"
    [] domain = "tendermint" /\ input = "Length"           -> "ParseError"
    [] domain = "tendermint" /\ input = "Parse"            -> "ParseError"
    [] domain = "tendermint" /\ input = "OutOfRange"       -> "ParseError"
    [] domain = "tendermint" /\ input = "SignatureInvalid" -> "VerificationError"
    [] domain = "state"      -> "DoubleSign"
    [] domain = "panic"      -> "PanicError"
    [] OTHER                 -> "unmapped"

\* C7: every failure of an external domain is converted to exactly the
\* KmsErrorKind the table lists for it, and none is left unmapped.
C7_ConversionTable ==
  \A e \in ErrorSet :
    e.domain # "kms" =>
      /\ e.error.kind \in KmsErrorKind
      /\ e.error.kind = TableKind(e.domain, e.input)

C7_Witness ==
  /\ \E e \in ErrorSet : e.domain = "signatory" /\ e.input = "ProviderError"
  /\ \E e \in ErrorSet : e.domain = "tendermint" /\ e.input = "OutOfRange"

\* C8: a converted failure has kind DoubleSign exactly when it came from a
\* state conflict, and no conversion yields ExceedMaxHeight.
C8_DoubleSignOnlyFromState ==
  \A e \in ErrorSet :
    e.domain # "kms" =>
      /\ e.error.kind = "DoubleSign" <=> e.domain = "state"
      /\ e.error.kind # "ExceedMaxHeight"

C8_Witness ==
  /\ \E e \in ErrorSet : e.domain = "state" /\ e.error.kind = "DoubleSign"
  /\ \E e \in ErrorSet : e.domain = "panic"

(***************************************************************************)
(* Properties of the account Id codec (under IdSpec).                      *)
(***************************************************************************)
IsHexChar(c) == Nibble(c, UpperDigits) >= 0 \/ Nibble(c, LowerDigits) >= 0

\* the value of a hex string read without regard to letter case
AnyCaseBytes(s) ==
  [i \in 1..(Len(s) \div 2) |->
     LET hi == IF Nibble(s[2 * i - 1], UpperDigits) >= 0
               THEN Nibble(s[2 * i - 1], UpperDigits) ELSE Nibble(s[2 * i - 1], LowerDigits)
         lo == IF Nibble(s[2 * i], UpperDigits) >= 0
               THEN Nibble(s[2 * i], UpperDigits) ELSE Nibble(s[2 * i], LowerDigits)
     IN  16 * hi + lo]

IsHex40(s) == Len(s) = 2 * LENGTH /\ \A i \in 1..Len(s) : IsHexChar(s[i])

\* C10: parse(to_hex_string(id)) = id with the string in upper case; parse
\* accepts every 40-character hex string in any letter case, mixed included,
\* with the same id for every casing; parse fails on every other string.
C10_HexRoundTripAnyCase ==
  /\ acct.shown # <<>> =>
       \A i \in 1..Len(acct.shown) : Nibble(acct.shown[i], UpperDigits) >= 0
  /\ acct.from # <<>> => (acct.res.ok /\ acct.res.id = acct.from)
  /\ acct.parsed =>
       IF IsHex40(acct.s)
       THEN acct.res.ok /\ acct.res.id = AnyCaseBytes(acct.s)
       ELSE ~acct.res.ok /\ acct.res.err = "Parse"

====
